---------------------------- MODULE Spec2Model ----------------------------
(***************************************************************************)
(* A state-machine model of the ledge library (src/ledge.go): the gated    *)
(* logger, the timing primitives and the tag-keyed store of elapsed-time   *)
(* samples guarded by one reader/writer lock per instance.                 *)
(*                                                                         *)
(* Every exported function is split into the steps at which another        *)
(* goroutine can observe or change shared state: each atomic read of a     *)
(* gate, each lock operation, the mutation made under the lock and each    *)
(* line handed to the logger are steps of their own.                       *)
(***************************************************************************)
EXTENDS Integers, Sequences, FiniteSets, TLC

(***************************************************************************)
(* Bounds of the model.                                                    *)
(***************************************************************************)
\* durations handed to the timing primitives are 0..MaxElapsed units
MaxElapsed == 2
\* calls made in one sequential history
MaxCalls == 4
\* concurrent callers, and calls made by each of them
NThreads == 2
CallsPerThread == 2

Instances == {"a", "b"}
Tags == {"t1", "t2"}
Durations == 0 .. MaxElapsed
Threads == 1 .. NThreads

(***************************************************************************)
(* time.Duration and toMillis.  A model duration counts units of 100       *)
(* microseconds; a stored sample is a number of milliseconds, kept in      *)
(* fixed point with MillisScale steps per millisecond.                     *)
(***************************************************************************)
UnitsPerSecond == 10000
MillisPerSecond == 1000
MillisScale == 100

toMillis(d) == (d * MillisPerSecond * MillisScale) \div UnitsPerSecond

(***************************************************************************)
(* The operations of the package.                                          *)
(***************************************************************************)
GlobalToggleOps == {"GlobalDebugOn", "GlobalDebugOff", "GlobalStatsOn", "GlobalStatsOff"}
InstanceToggleOps == {"DebugOn", "DebugOff", "StatsOn", "StatsOff"}
ToggleOps == GlobalToggleOps \cup InstanceToggleOps
TimingOps == {"Time", "TimeAbove", "Record", "RecordAbove", "RecordAndPrint", "RecordThenPrintIfMax"}
StoringOps == {"Record", "RecordAbove", "RecordAndPrint", "RecordThenPrintIfMax"}
AccessorOps == {"Count", "Mean", "Median", "Perc", "Min", "Max", "Variance"}
StatsGatedOps == TimingOps \cup AccessorOps \cup {"Stats"}
CheckOps == {"Check", "CheckPrint"}

\* Stats(tag): the accessors it calls, in order
StatsSequence == <<"Count", "Min", "Median", "Perc", "Max", "Mean", "Variance">>
\* the percentile Stats asks for
StatsPerc == 99

NoCall == [op |-> "none", inst |-> "a", tag |-> "t1", above |-> 0, perc |-> 0, d |-> 0,
           err |-> FALSE]
NoSnap == [ok |-> FALSE, recs |-> <<>>]
NoPre == [records |-> <<>>, out |-> <<>>, debug |-> <<>>, stats |-> <<>>,
          globalDebug |-> FALSE, globalStats |-> FALSE]

Call(op, i, tag, above, perc, d) ==
    [op |-> op, inst |-> i, tag |-> tag, above |-> above, perc |-> perc, d |-> d,
     err |-> FALSE]

\* a call of Panic, Check or CheckPrint: err is err != nil
ErrCall(op, i, msg, err) == [Call(op, i, msg, 0, 0, 0) EXCEPT !.err = err]

VARIABLES
    globalDebug,   \* var globalDebug
    globalStats,   \* var globalStats
    debug,         \* l.debug of every instance
    stats,         \* l.stats of every instance
    records,       \* l.records of every instance: a map from tags to sequences
    recordsLock,   \* l.recordsLock of every instance: its writer and its readers
    out,           \* the lines handed to the loggers, in order
    pc,            \* where each caller is in the function it called
    call,          \* the call each caller is in, with its arguments
    elapsed,       \* the local elapsed of each caller
    snap,          \* the locals records, ok of an accessor
    todo,          \* the accessors the call has still to run (Stats runs seven)
    ran,           \* how often the call has run its work so far
    stack,         \* the calls of each caller whose work has made the call
                   \* the caller is in, the innermost last
    pre,           \* the shared state as it was when the call was made
    ncalls,        \* calls made so far by each caller
    enabledCalls,  \* per instance and tag: Record calls made with both stats
                   \* gates on since the last ClearRecords of the tag
    disabledCalls, \* the same, Record calls made with a stats gate off
    turnedOn,      \* the instance gates that DebugOn or StatsOn of the
                   \* instance has set since New
    everBoth       \* the instances whose stats gate and the process-wide
                   \* stats gate have been on together at some moment

vars == <<globalDebug, globalStats, debug, stats, records, recordsLock, out,
          pc, call, elapsed, snap, todo, ran, pre, ncalls, enabledCalls,
          disabledCalls, turnedOn, everBoth, stack>>

shared == <<globalDebug, globalStats, debug, stats, records, recordsLock, out>>
gates == <<globalDebug, globalStats, debug, stats>>
locals == <<elapsed, snap, todo, ran>>
ghosts == <<pre, ncalls, enabledCalls, disabledCalls, turnedOn, everBoth>>

(***************************************************************************)
(* Maps and sequences.                                                     *)
(***************************************************************************)
EmptyMap == [x \in {} |-> <<>>]

Has(m, k) == k \in DOMAIN m

Put(m, k, v) == [x \in DOMAIN m \cup {k} |-> IF x = k THEN v ELSE m[x]]

\* l.records[tag], the zero value (a nil slice) for an absent key
Lookup(m, k) == IF Has(m, k) THEN m[k] ELSE <<>>

\* records, ok := l.records[tag]
ReadTag(m, k) == [ok |-> Has(m, k), recs |-> Lookup(m, k)]

\* mutant: the new sample replaces the sequence
AppendSampleReplaces(s, v) == <<v>>

\* mutant: the new sample is put before the others
AppendSamplePrepends(s, v) == <<v>> \o s.recs

\* append(records, v) when ok, []float64{v} otherwise
AppendSample(s, v) == IF s.ok THEN Append(s.recs, v) ELSE <<v>>

\* mutant: ClearRecords deletes the key
ClearSampleDeletes(m, k) == [x \in DOMAIN m \ {k} |-> m[x]]

\* l.records[tag] = make([]float64, 0)
ClearSample(m, k) == Put(m, k, <<>>)

RECURSIVE SumSeq(_)
SumSeq(s) == IF s = <<>> THEN 0 ELSE Head(s) + SumSeq(Tail(s))

RECURSIVE SumSquares(_)
SumSquares(s) == IF s = <<>> THEN 0 ELSE Head(s) * Head(s) + SumSquares(Tail(s))

SeqMax(s) == CHOOSE x \in {s[k] : k \in DOMAIN s} : \A k \in DOMAIN s : s[k] <= x

SeqMin(s) == CHOOSE x \in {s[k] : k \in DOMAIN s} : \A k \in DOMAIN s : x <= s[k]

RECURSIVE Insert(_, _)
Insert(x, s) ==
    IF s = <<>> THEN <<x>>
    ELSE IF x <= Head(s) THEN <<x>> \o s
    ELSE <<Head(s)>> \o Insert(x, Tail(s))

RECURSIVE Sorted(_)
Sorted(s) == IF s = <<>> THEN <<>> ELSE Insert(Head(s), Sorted(Tail(s)))

Ceil(num, den) == (num + den - 1) \div den

(***************************************************************************)
(* The statistics of github.com/montanaflynn/stats, on a non-empty         *)
(* sequence, each as an exact fraction <<numerator, denominator>>.         *)
(***************************************************************************)
StatMean(s) == <<SumSeq(s), Len(s)>>

StatMedian(s) ==
    LET c == Sorted(s)
        l == Len(s)
    IN IF l % 2 = 0 THEN <<c[l \div 2] + c[l \div 2 + 1], 2>>
       ELSE <<c[l \div 2 + 1], 1>>

StatPerc(s, p) ==
    LET c == Sorted(s)
        il == Len(s)
        r == Ceil(il * p, 100)
    IN IF p = 100 THEN <<c[il], 1>>
       ELSE IF r = 0 THEN <<c[1], 1>>
       ELSE <<c[r], 1>>

StatVariance(s) ==
    <<Len(s) * SumSquares(s) - SumSeq(s) * SumSeq(s), Len(s) * Len(s)>>

StatValue(acc, s, p) ==
    CASE acc = "Mean" -> StatMean(s)
      [] acc = "Median" -> StatMedian(s)
      [] acc = "Perc" -> StatPerc(s, p)
      [] acc = "Min" -> <<SeqMin(s), 1>>
      [] acc = "Max" -> <<SeqMax(s), 1>>
      [] acc = "Variance" -> StatVariance(s)

(***************************************************************************)
(* The logger: one line is the instance, the bracketed label, the tag (or  *)
(* the message of Print and Debug) and the value printed after it.         *)
(***************************************************************************)
Line(i, kind, tag, val) == [inst |-> i, kind |-> kind, tag |-> tag, val |-> val]

Println(line) == out' = Append(out, line)

TimingLabel(op) ==
    CASE op = "Time" -> "TIME"
      [] op = "TimeAbove" -> "TIME-ABOVE"
      [] op = "RecordAndPrint" -> "RECORD"
      [] op = "RecordThenPrintIfMax" -> "RECORD-ABOVE-MAX"
      [] op = "Debug" -> "DEBUG"
      [] op = "Print" -> "PRINT"

(***************************************************************************)
(* New and the package variables.                                          *)
(***************************************************************************)
\* abool.NewBool(true) of globalDebug and globalStats
GlobalDefault == TRUE

\* mutant: an instance is made with its gates on
NewGateOn == TRUE

\* abool.NewBool(false) of l.debug and l.stats
NewGate == FALSE

NewLock == [writer |-> 0, readers |-> {}]

Init ==
    /\ globalDebug = GlobalDefault
    /\ globalStats = GlobalDefault
    /\ debug = [i \in Instances |-> NewGate]
    /\ stats = [i \in Instances |-> NewGate]
    /\ records = [i \in Instances |-> EmptyMap]
    /\ recordsLock = [i \in Instances |-> NewLock]
    /\ out = <<>>
    /\ pc = [t \in Threads |-> "idle"]
    /\ call = [t \in Threads |-> NoCall]
    /\ elapsed = [t \in Threads |-> 0]
    /\ snap = [t \in Threads |-> NoSnap]
    /\ todo = [t \in Threads |-> <<>>]
    /\ ran = [t \in Threads |-> 0]
    /\ stack = [t \in Threads |-> <<>>]
    /\ pre = [t \in Threads |-> NoPre]
    /\ ncalls = [t \in Threads |-> 0]
    /\ enabledCalls = [i \in Instances |-> [g \in Tags |-> 0]]
    /\ disabledCalls = [i \in Instances |-> [g \in Tags |-> 0]]
    /\ turnedOn = {}
    /\ everBoth = {}


(***************************************************************************)
(* Calling a function.                                                     *)
(***************************************************************************)
\* the first step of each function
EntryPc(op) ==
    CASE op \in TimingOps -> "work"
      [] op \in AccessorOps \cup {"Stats", "Debug"} -> "gateInst"
      [] op = "Print" -> "emit"
      [] op = "ClearRecords" -> "lock"
      [] op \in ToggleOps -> "toggle"
      [] op = "Panic" -> "panic"
      [] op \in CheckOps -> "check"

Snapshot ==
    [records |-> records, out |-> out, debug |-> debug, stats |-> stats,
     globalDebug |-> globalDebug, globalStats |-> globalStats]

\* the accessors a call runs: Stats runs the seven, an accessor itself
Accessors(op) ==
    IF op = "Stats" THEN StatsSequence
    ELSE IF op \in AccessorOps THEN <<op>>
    ELSE <<>>

\* caller t calls one of calls, having made fewer than max calls so far;
\* p is what the call remembers of the state it was made in
Begin(t, calls, max, p) ==
    /\ pc[t] = "idle"
    /\ ncalls[t] < max
    /\ \E c \in calls :
        /\ call' = [call EXCEPT ![t] = c]
        /\ pc' = [pc EXCEPT ![t] = EntryPc(c.op)]
        /\ todo' = [todo EXCEPT ![t] = Accessors(c.op)]
        /\ enabledCalls' =
              IF c.op = "Record" /\ stats[c.inst] /\ globalStats
              THEN [enabledCalls EXCEPT ![c.inst][c.tag] = @ + 1]
              ELSE IF c.op = "ClearRecords"
              THEN [enabledCalls EXCEPT ![c.inst][c.tag] = 0]
              ELSE enabledCalls
        /\ disabledCalls' =
              IF c.op = "Record" /\ ~(stats[c.inst] /\ globalStats)
              THEN [disabledCalls EXCEPT ![c.inst][c.tag] = @ + 1]
              ELSE IF c.op = "ClearRecords"
              THEN [disabledCalls EXCEPT ![c.inst][c.tag] = 0]
              ELSE disabledCalls
    /\ pre' = [pre EXCEPT ![t] = p]
    /\ ran' = [ran EXCEPT ![t] = 0]
    /\ ncalls' = [ncalls EXCEPT ![t] = @ + 1]
    /\ UNCHANGED <<shared, elapsed, snap, turnedOn, everBoth, stack>>

\* a call of a sequential history: it remembers the state it was made in
Invoke(t, calls, max) == Begin(t, calls, max, Snapshot)

\* a call of one of several concurrent callers
InvokeConcurrent(t, calls, max) == Begin(t, calls, max, NoPre)

\* the function returns to its caller, one that is not the work of a call
Return(t) ==
    /\ pc[t] = "done"
    /\ stack[t] = <<>>
    /\ pc' = [pc EXCEPT ![t] = "idle"]
    /\ call' = [call EXCEPT ![t] = NoCall]
    /\ elapsed' = [elapsed EXCEPT ![t] = 0]
    /\ snap' = [snap EXCEPT ![t] = NoSnap]
    /\ todo' = [todo EXCEPT ![t] = <<>>]
    /\ ran' = [ran EXCEPT ![t] = 0]
    /\ pre' = [pre EXCEPT ![t] = NoPre]
    /\ UNCHANGED <<shared, ncalls, enabledCalls, disabledCalls, turnedOn, everBoth, stack>>

(***************************************************************************)
(* The toggles: DebugOn, DebugOff, StatsOn, StatsOff of the package and of *)
(* an instance.                                                            *)
(***************************************************************************)
\* mutant: an instance's toggle sets the gate of every instance
ToggleShared(t) ==
    /\ pc[t] = "toggle"
    /\ LET op == call[t].op
       IN /\ globalDebug' = (CASE op = "GlobalDebugOn" -> TRUE
                               [] op = "GlobalDebugOff" -> FALSE
                               [] OTHER -> globalDebug)
          /\ globalStats' = (CASE op = "GlobalStatsOn" -> TRUE
                               [] op = "GlobalStatsOff" -> FALSE
                               [] OTHER -> globalStats)
          /\ debug' = (CASE op = "DebugOn" -> [i \in Instances |-> TRUE]
                         [] op = "DebugOff" -> [i \in Instances |-> FALSE]
                         [] OTHER -> debug)
          /\ stats' = (CASE op = "StatsOn" -> [i \in Instances |-> TRUE]
                         [] op = "StatsOff" -> [i \in Instances |-> FALSE]
                         [] OTHER -> stats)
    /\ turnedOn' = (CASE call[t].op = "DebugOn" -> turnedOn \cup {<<call[t].inst, "debug">>}
                      [] call[t].op = "StatsOn" -> turnedOn \cup {<<call[t].inst, "stats">>}
                      [] OTHER -> turnedOn)
    /\ everBoth' = everBoth \cup {j \in Instances : stats'[j] /\ globalStats'}
    /\ pc' = [pc EXCEPT ![t] = "done"]
    /\ UNCHANGED <<records, recordsLock, out, call, locals, pre, ncalls,
                   enabledCalls, disabledCalls, stack>>

Toggle(t) ==
    /\ pc[t] = "toggle"
    /\ LET op == call[t].op
           i == call[t].inst
       IN /\ globalDebug' = (CASE op = "GlobalDebugOn" -> TRUE
                               [] op = "GlobalDebugOff" -> FALSE
                               [] OTHER -> globalDebug)
          /\ globalStats' = (CASE op = "GlobalStatsOn" -> TRUE
                               [] op = "GlobalStatsOff" -> FALSE
                               [] OTHER -> globalStats)
          /\ debug' = (CASE op = "DebugOn" -> [debug EXCEPT ![i] = TRUE]
                         [] op = "DebugOff" -> [debug EXCEPT ![i] = FALSE]
                         [] OTHER -> debug)
          /\ stats' = (CASE op = "StatsOn" -> [stats EXCEPT ![i] = TRUE]
                         [] op = "StatsOff" -> [stats EXCEPT ![i] = FALSE]
                         [] OTHER -> stats)
    /\ turnedOn' = (CASE call[t].op = "DebugOn" -> turnedOn \cup {<<call[t].inst, "debug">>}
                      [] call[t].op = "StatsOn" -> turnedOn \cup {<<call[t].inst, "stats">>}
                      [] OTHER -> turnedOn)
    /\ everBoth' = everBoth \cup {j \in Instances : stats'[j] /\ globalStats'}
    /\ pc' = [pc EXCEPT ![t] = "done"]
    /\ UNCHANGED <<records, recordsLock, out, call, locals, pre, ncalls,
                   enabledCalls, disabledCalls, stack>>

(***************************************************************************)
(* The timing primitives run the work first: t0 := time.Now(); f()         *)
(***************************************************************************)
\* mutant: the work is run only when both stats gates are set
WorkWhenGated(t) ==
    /\ pc[t] = "work"
    /\ ran' = [ran EXCEPT ![t] =
                  IF stats[call[t].inst] /\ globalStats THEN @ + 1 ELSE @]
    /\ pc' = [pc EXCEPT ![t] = "gateInst"]
    /\ UNCHANGED <<shared, call, elapsed, snap, todo, ghosts, stack>>

Work(t) ==
    /\ pc[t] = "work"
    /\ ran' = [ran EXCEPT ![t] = @ + 1]
    /\ pc' = [pc EXCEPT ![t] = "gateInst"]
    /\ UNCHANGED <<shared, call, elapsed, snap, todo, ghosts, stack>>

(***************************************************************************)
(* The gates: if l.stats.IsSet() && globalStats.IsSet() { ... }, two       *)
(* atomic reads, the second made only when the first found the gate set.   *)
(***************************************************************************)
\* mutant: the instance gate is not consulted
InstGateIgnored(t) == TRUE

\* l.debug.IsSet() of Debug, l.stats.IsSet() of the others
InstGate(t) ==
    IF call[t].op = "Debug" THEN debug[call[t].inst] ELSE stats[call[t].inst]

\* mutant: the process-wide gate is not consulted
GlobalGateIgnored(t) == TRUE

\* globalDebug.IsSet() of Debug, globalStats.IsSet() of the others
GlobalGate(t) ==
    IF call[t].op = "Debug" THEN globalDebug ELSE globalStats

\* an accessor is over: Stats goes on to its next accessor
NextAccessor(t) ==
    IF Len(todo[t]) > 1
    THEN /\ todo' = [todo EXCEPT ![t] = Tail(@)]
         /\ pc' = [pc EXCEPT ![t] = "gateInst"]
    ELSE /\ todo' = [todo EXCEPT ![t] = <<>>]
         /\ pc' = [pc EXCEPT ![t] = "done"]

\* the gate is closed: the function (an accessor of Stats) returns
Skip(t) ==
    IF todo[t] # <<>> THEN NextAccessor(t)
    ELSE /\ pc' = [pc EXCEPT ![t] = "done"]
         /\ UNCHANGED todo

GateInst(t) ==
    /\ pc[t] = "gateInst"
    /\ IF InstGate(t)
       THEN /\ pc' = [pc EXCEPT ![t] = "gateGlobal"]
            /\ UNCHANGED todo
       ELSE Skip(t)
    /\ UNCHANGED <<shared, call, elapsed, snap, ran, ghosts, stack>>

\* the step after both gates were found set
GatedPc(op) ==
    CASE op \in {"Time", "Debug"} -> "emit"
      [] op = "TimeAbove" -> "above"
      [] op = "RecordAbove" -> "aboveRecord"
      [] op \in {"Record", "RecordAndPrint", "RecordThenPrintIfMax"} -> "lock"
      [] op \in AccessorOps \cup {"Stats"} -> "rlock"

\* the second read; a timing primitive then takes elapsed := time.Since(t0)
GateGlobal(t) ==
    /\ pc[t] = "gateGlobal"
    /\ IF GlobalGate(t)
       THEN /\ pc' = [pc EXCEPT ![t] = GatedPc(call[t].op)]
            /\ elapsed' = [elapsed EXCEPT ![t] =
                              IF call[t].op \in TimingOps THEN call[t].d ELSE @]
            /\ UNCHANGED todo
       ELSE /\ Skip(t)
            /\ UNCHANGED elapsed
    /\ UNCHANGED <<shared, call, snap, ran, ghosts, stack>>

\* mutant: an elapsed time equal to the threshold passes
ExceedsOrEqual(e, above) == e >= above

\* if elapsed > above
Exceeds(e, above) == e > above

\* TimeAbove: the line is printed only above the threshold
Above(t) ==
    /\ pc[t] = "above"
    /\ pc' = [pc EXCEPT ![t] =
                 IF Exceeds(elapsed[t], call[t].above) THEN "emit" ELSE "done"]
    /\ UNCHANGED <<shared, call, locals, ghosts, stack>>

\* RecordAbove (named by the README and the example, its body not in the
\* sources): the threshold test of TimeAbove before the append of Record
AboveRecord(t) ==
    /\ pc[t] = "aboveRecord"
    /\ pc' = [pc EXCEPT ![t] =
                 IF Exceeds(elapsed[t], call[t].above) THEN "lock" ELSE "done"]
    /\ UNCHANGED <<shared, call, locals, ghosts, stack>>

(***************************************************************************)
(* Panic, Check and CheckPrint: no gate is read.  A caller that panicked   *)
(* takes no further step.                                                  *)
(***************************************************************************)
\* mutant: Panic prints its line and returns
PanicReturns(t) ==
    /\ pc[t] = "panic"
    /\ Println(Line(call[t].inst, "PANIC", call[t].tag, <<0, 1>>))
    /\ pc' = [pc EXCEPT ![t] = "done"]
    /\ UNCHANGED <<gates, records, recordsLock, call, locals, ghosts, stack>>

\* l.logger.Panicln(s): the line is printed, then panic(s)
Panic(t) ==
    /\ pc[t] = "panic"
    /\ Println(Line(call[t].inst, "PANIC", call[t].tag, <<0, 1>>))
    /\ pc' = [pc EXCEPT ![t] = "panicked"]
    /\ UNCHANGED <<gates, records, recordsLock, call, locals, ghosts, stack>>

\* Check and CheckPrint: if err != nil { l.Panic(...) }
CheckErr(t) ==
    /\ pc[t] = "check"
    /\ pc' = [pc EXCEPT ![t] = IF call[t].err THEN "panic" ELSE "done"]
    /\ UNCHANGED <<shared, call, locals, ghosts, stack>>

(***************************************************************************)
(* Lines printed with no lock held: Print, Debug, Time, TimeAbove.         *)
(***************************************************************************)
Emit(t) ==
    /\ pc[t] = "emit"
    /\ Println(Line(call[t].inst, TimingLabel(call[t].op), call[t].tag,
                    <<elapsed[t], 1>>))
    /\ pc' = [pc EXCEPT ![t] = "done"]
    /\ UNCHANGED <<gates, records, recordsLock, call, locals, ghosts, stack>>

(***************************************************************************)
(* The store, under l.recordsLock.                                         *)
(***************************************************************************)
\* the step a function makes once it holds the exclusive lock
LockedPc(op) ==
    CASE op \in {"Record", "RecordAbove"} -> "append"
      [] op = "RecordAndPrint" -> "emitLocked"
      [] op = "RecordThenPrintIfMax" -> "max"
      [] op = "ClearRecords" -> "clear"

\* mutant: Lock does not wait for the lock to be free
LockNoExclusion(t) ==
    /\ pc[t] = "lock"
    /\ recordsLock' = [recordsLock EXCEPT ![call[t].inst].writer = t]
    /\ pc' = [pc EXCEPT ![t] = LockedPc(call[t].op)]
    /\ UNCHANGED <<gates, records, out, call, locals, ghosts, stack>>

\* l.recordsLock.Lock()
Lock(t) ==
    /\ pc[t] = "lock"
    /\ recordsLock[call[t].inst].writer = 0
    /\ recordsLock[call[t].inst].readers = {}
    /\ recordsLock' = [recordsLock EXCEPT ![call[t].inst].writer = t]
    /\ pc' = [pc EXCEPT ![t] = LockedPc(call[t].op)]
    /\ UNCHANGED <<gates, records, out, call, locals, ghosts, stack>>

\* defer l.recordsLock.Unlock(), run when the function returns
Unlock(t) ==
    /\ pc[t] = "unlock"
    /\ recordsLock' = [recordsLock EXCEPT ![call[t].inst].writer = 0]
    /\ pc' = [pc EXCEPT ![t] = "done"]
    /\ UNCHANGED <<gates, records, out, call, locals, ghosts, stack>>

\* Record, RecordAndPrint (and RecordAbove): records, ok := l.records[tag]
AppendStep(t) ==
    /\ pc[t] = "append"
    /\ snap' = [snap EXCEPT ![t] = ReadTag(records[call[t].inst], call[t].tag)]
    /\ pc' = [pc EXCEPT ![t] = "store"]
    /\ UNCHANGED <<shared, call, elapsed, todo, ran, ghosts, stack>>

\* l.records[tag] = append(records, toMillis(elapsed)), or the new slice
StoreStep(t) ==
    /\ pc[t] = "store"
    /\ records' = [records EXCEPT ![call[t].inst] =
                      Put(@, call[t].tag, AppendSample(snap[t], toMillis(elapsed[t])))]
    /\ pc' = [pc EXCEPT ![t] = "unlock"]
    /\ UNCHANGED <<gates, recordsLock, out, call, locals, ghosts, stack>>

\* mutant: RecordAndPrint reads the gates again before its append
EmitLockedRechecks(t) ==
    /\ pc[t] = "emitLocked"
    /\ Println(Line(call[t].inst, TimingLabel(call[t].op), call[t].tag,
                    <<elapsed[t], 1>>))
    /\ pc' = [pc EXCEPT ![t] =
                 IF call[t].op = "RecordAndPrint" /\ stats[call[t].inst] /\ globalStats
                 THEN "append" ELSE "unlock"]
    /\ UNCHANGED <<gates, records, recordsLock, call, locals, ghosts, stack>>

\* RecordAndPrint and RecordThenPrintIfMax print with the lock held
EmitLocked(t) ==
    /\ pc[t] = "emitLocked"
    /\ Println(Line(call[t].inst, TimingLabel(call[t].op), call[t].tag,
                    <<elapsed[t], 1>>))
    /\ pc' = [pc EXCEPT ![t] =
                 IF call[t].op = "RecordAndPrint" THEN "append" ELSE "unlock"]
    /\ UNCHANGED <<gates, records, recordsLock, call, locals, ghosts, stack>>

\* mutant: a sample equal to the maximum counts as a new maximum
NoNewMaxTiesPrint(ms, recs) == ms < SeqMax(recs)

\* if elapsedMillis <= r { append; return }: the sample is no new maximum
NoNewMax(ms, recs) == ms <= SeqMax(recs)

\* RecordThenPrintIfMax: records, ok := l.records[tag]
MaxStep(t) ==
    /\ pc[t] = "max"
    /\ snap' = [snap EXCEPT ![t] = ReadTag(records[call[t].inst], call[t].tag)]
    /\ pc' = [pc EXCEPT ![t] = "maxStore"]
    /\ UNCHANGED <<shared, call, elapsed, todo, ran, ghosts, stack>>

\* mutant: the return on a sample that is no new maximum leaves the lock
\* held
MaxStoreStepLeaks(t) ==
    /\ pc[t] = "maxStore"
    /\ LET ms == toMillis(elapsed[t])
           quiet == snap[t].ok /\ Len(snap[t].recs) > 0 /\ NoNewMax(ms, snap[t].recs)
       IN /\ records' = [records EXCEPT ![call[t].inst] =
                            Put(@, call[t].tag, AppendSample(snap[t], ms))]
          /\ pc' = [pc EXCEPT ![t] = IF quiet THEN "done" ELSE "emitLocked"]
    /\ UNCHANGED <<gates, recordsLock, out, call, locals, ghosts, stack>>

\* the comparison with stats.Max(records) and the append: on a sample that
\* is no new maximum the function returns, otherwise it goes on to print
MaxStoreStep(t) ==
    /\ pc[t] = "maxStore"
    /\ LET ms == toMillis(elapsed[t])
           quiet == snap[t].ok /\ Len(snap[t].recs) > 0 /\ NoNewMax(ms, snap[t].recs)
       IN /\ records' = [records EXCEPT ![call[t].inst] =
                            Put(@, call[t].tag, AppendSample(snap[t], ms))]
          /\ pc' = [pc EXCEPT ![t] = IF quiet THEN "unlock" ELSE "emitLocked"]
    /\ UNCHANGED <<gates, recordsLock, out, call, locals, ghosts, stack>>

\* mutant: ClearRecords clears only when both stats gates are set
ClearWhenGated(t) ==
    /\ pc[t] = "clear"
    /\ records' = [records EXCEPT ![call[t].inst] =
                      IF stats[call[t].inst] /\ globalStats
                      THEN ClearSample(@, call[t].tag) ELSE @]
    /\ pc' = [pc EXCEPT ![t] = "unlock"]
    /\ UNCHANGED <<gates, recordsLock, out, call, locals, ghosts, stack>>

\* ClearRecords
Clear(t) ==
    /\ pc[t] = "clear"
    /\ records' = [records EXCEPT ![call[t].inst] = ClearSample(@, call[t].tag)]
    /\ pc' = [pc EXCEPT ![t] = "unlock"]
    /\ UNCHANGED <<gates, recordsLock, out, call, locals, ghosts, stack>>

(***************************************************************************)
(* The accessors: the sequence is read under the shared lock, the          *)
(* statistic is computed and printed after the lock is released.           *)
(***************************************************************************)
\* l.recordsLock.RLock()
RLock(t) ==
    /\ pc[t] = "rlock"
    /\ recordsLock[call[t].inst].writer = 0
    /\ recordsLock' = [recordsLock EXCEPT ![call[t].inst].readers = @ \cup {t}]
    /\ pc' = [pc EXCEPT ![t] = "read"]
    /\ UNCHANGED <<gates, records, out, call, locals, ghosts, stack>>

\* mutant: reading an absent tag makes it a key of the records
ReadInserts(t) ==
    /\ pc[t] = "read"
    /\ snap' = [snap EXCEPT ![t] = ReadTag(records[call[t].inst], call[t].tag)]
    /\ records' = [records EXCEPT ![call[t].inst] =
                      Put(@, call[t].tag, Lookup(@, call[t].tag))]
    /\ pc' = [pc EXCEPT ![t] = "runlock"]
    /\ UNCHANGED <<gates, recordsLock, out, call, elapsed, todo, ran, ghosts, stack>>

\* records, ok := l.records[tag]
Read(t) ==
    /\ pc[t] = "read"
    /\ snap' = [snap EXCEPT ![t] = ReadTag(records[call[t].inst], call[t].tag)]
    /\ pc' = [pc EXCEPT ![t] = "runlock"]
    /\ UNCHANGED <<shared, call, elapsed, todo, ran, ghosts, stack>>

\* l.recordsLock.RUnlock()
RUnlock(t) ==
    /\ pc[t] = "runlock"
    /\ recordsLock' = [recordsLock EXCEPT ![call[t].inst].readers = @ \ {t}]
    /\ pc' = [pc EXCEPT ![t] = "compute"]
    /\ UNCHANGED <<gates, records, out, call, locals, ghosts, stack>>

AccessorLabel(acc) ==
    CASE acc = "Count" -> "COUNT"
      [] acc = "Mean" -> "MEAN"
      [] acc = "Median" -> "MEDIAN"
      [] acc = "Perc" -> "PERC"
      [] acc = "Min" -> "MIN"
      [] acc = "Max" -> "MAX"
      [] acc = "Variance" -> "VARIANCE"

\* the percentile asked for: Stats asks for the 99th
PercOf(c) == IF c.op = "Stats" THEN StatsPerc ELSE c.perc

\* mutant: only an absent tag has nothing to report
NothingToReportAbsent(s) == ~s.ok

\* if !ok || len(records) == 0 { return }
NothingToReport(s) == ~s.ok \/ Len(s.recs) = 0

\* the error of stats.Mean, stats.Median, ...: an empty input
StatError(s) == Len(s) = 0

\* mutant: the statistic is computed from the records as they are when the
\* line is printed
ComputeLive(t) ==
    /\ pc[t] = "compute"
    /\ LET acc == Head(todo[t])
           c == call[t]
           now == ReadTag(records[c.inst], c.tag)
       IN IF acc = "Count"
          THEN /\ Println(Line(c.inst, "COUNT", c.tag, <<Len(now.recs), 1>>))
               /\ NextAccessor(t)
          ELSE IF NothingToReport(now)
          THEN /\ UNCHANGED out
               /\ NextAccessor(t)
          ELSE /\ Println(Line(c.inst, AccessorLabel(acc), c.tag,
                               StatValue(acc, now.recs, PercOf(c))))
               /\ NextAccessor(t)
    /\ UNCHANGED <<gates, records, recordsLock, call, elapsed, snap, ran, ghosts, stack>>

\* the rest of the accessor: Count prints the length; the others return on
\* an absent or empty sequence, panic(e) on the error of the statistic and
\* print the statistic otherwise
Compute(t) ==
    /\ pc[t] = "compute"
    /\ LET acc == Head(todo[t])
           c == call[t]
       IN IF acc = "Count"
          THEN /\ Println(Line(c.inst, "COUNT", c.tag, <<Len(snap[t].recs), 1>>))
               /\ NextAccessor(t)
          ELSE IF NothingToReport(snap[t])
          THEN /\ UNCHANGED out
               /\ NextAccessor(t)
          ELSE IF StatError(snap[t].recs)
          THEN /\ UNCHANGED <<out, todo>>
               /\ pc' = [pc EXCEPT ![t] = "panicked"]
          ELSE /\ Println(Line(c.inst, AccessorLabel(acc), c.tag,
                               StatValue(acc, snap[t].recs, PercOf(c))))
               /\ NextAccessor(t)
    /\ UNCHANGED <<gates, records, recordsLock, call, elapsed, snap, ran, ghosts, stack>>


(***************************************************************************)
(* Sequential histories over the gates: one caller, two instances, every   *)
(* toggle and every gated function.                                        *)
(***************************************************************************)
\* the one caller of a sequential history: the first of the callers
Main == CHOOSE t \in Threads : \A u \in Threads : t <= u

\* the durations and the thresholds used where the gates are what matters
GateDurations == {1}
GateThresholds == {0}

ToggleCalls ==
    {Call(op, "a", "t1", 0, 0, 0) : op \in GlobalToggleOps}
    \cup {Call(op, i, "t1", 0, 0, 0) : op \in InstanceToggleOps, i \in Instances}

GatedCalls ==
    {Call(op, i, "t1", above, 0, d) :
         op \in TimingOps, i \in Instances, above \in GateThresholds, d \in GateDurations}
    \cup {Call(op, i, "t1", 0, 50, 0) : op \in AccessorOps \cup {"Stats", "Debug"},
                                         i \in Instances}

NextGates ==
    \/ Invoke(Main, ToggleCalls \cup GatedCalls, MaxCalls)
    \/ Return(Main)
    \/ Toggle(Main)
    \/ Work(Main)
    \/ GateInst(Main)
    \/ GateGlobal(Main)
    \/ Above(Main)
    \/ AboveRecord(Main)
    \/ Emit(Main)
    \/ Lock(Main)
    \/ Unlock(Main)
    \/ AppendStep(Main)
    \/ StoreStep(Main)
    \/ EmitLocked(Main)
    \/ MaxStep(Main)
    \/ MaxStoreStep(Main)
    \/ RLock(Main)
    \/ Read(Main)
    \/ RUnlock(Main)
    \/ Compute(Main)

SpecGates == Init /\ [][NextGates]_vars

(***************************************************************************)
(* Properties of the sequential histories over the gates.                  *)
(***************************************************************************)
\* the functions of src/ledge.go behind the stats gates, and Debug
CodeTimingOps == {"Time", "TimeAbove", "Record", "RecordAndPrint", "RecordThenPrintIfMax"}
CodeGatedOps == CodeTimingOps \cup AccessorOps \cup {"Stats", "Debug"}

\* both gates of the call (the debug gates for Debug, the stats gates for
\* the others) were on when the call was made
BothOnAtCall(t) ==
    IF call[t].op = "Debug"
    THEN pre[t].debug[call[t].inst] /\ pre[t].globalDebug
    ELSE pre[t].stats[call[t].inst] /\ pre[t].globalStats

\* the sample a timing call stores
SampleOf(t) == toMillis(call[t].d)

\* C1: with no concurrent toggling, a gated function (Time, TimeAbove,
\* Record, RecordAndPrint, RecordThenPrintIfMax, the accessors, Stats, Debug)
\* called in a combination of instance gate and process-wide gate other than
\* (on, on) leaves the records of every instance and the printed output as
\* they were when it was called, at every step up to its return.
C1_GatedOnlyWhenBothOn ==
    \A t \in Threads :
        (call[t].op \in CodeGatedOps /\ ~BothOnAtCall(t))
            => (records = pre[t].records /\ out = pre[t].out)

\* C1 witness: a Record called in the (on, on) combination has returned and
\* its sample is stored
C1_Witness ==
    /\ pc[Main] = "done"
    /\ call[Main].op = "Record"
    /\ BothOnAtCall(Main)
    /\ records[call[Main].inst][call[Main].tag]
          = Append(Lookup(pre[Main].records[call[Main].inst], call[Main].tag),
                   SampleOf(Main))

\* C6: the process-wide gates are shared and the instance gates private.
\* (a) a stats-gated call made with the process-wide stats gate off (a
\* Debug call with the process-wide debug gate off) changes neither the
\* records nor the output, also on an instance whose own gate is on;
\* (b) a toggle of one instance leaves the gates of the other instances and
\* the process-wide gates as they were, and a package-level toggle leaves
\* every instance gate as it was;
\* (c) a Record or RecordAndPrint on an instance whose stats gate and the
\* process-wide stats gate are on stores its sample (RecordAndPrint also
\* prints), whatever the gates of the other instances.
C6_GlobalSharedInstancePrivate ==
    \A t \in Threads :
        LET c == call[t]
            p == pre[t]
        IN  /\ (c.op \in CodeGatedOps \ {"Debug"} /\ ~p.globalStats)
                   => (records = p.records /\ out = p.out)
            /\ (c.op = "Debug" /\ ~p.globalDebug) => out = p.out
            /\ (pc[t] = "done" /\ c.op \in InstanceToggleOps)
                   => /\ \A j \in Instances \ {c.inst} :
                             debug[j] = p.debug[j] /\ stats[j] = p.stats[j]
                      /\ globalDebug = p.globalDebug
                      /\ globalStats = p.globalStats
                      /\ debug[c.inst] = (CASE c.op = "DebugOn" -> TRUE
                                            [] c.op = "DebugOff" -> FALSE
                                            [] OTHER -> p.debug[c.inst])
                      /\ stats[c.inst] = (CASE c.op = "StatsOn" -> TRUE
                                            [] c.op = "StatsOff" -> FALSE
                                            [] OTHER -> p.stats[c.inst])
            /\ (pc[t] = "done" /\ c.op \in GlobalToggleOps)
                   => /\ debug = p.debug
                      /\ stats = p.stats
                      /\ globalDebug = (CASE c.op = "GlobalDebugOn" -> TRUE
                                          [] c.op = "GlobalDebugOff" -> FALSE
                                          [] OTHER -> p.globalDebug)
                      /\ globalStats = (CASE c.op = "GlobalStatsOn" -> TRUE
                                          [] c.op = "GlobalStatsOff" -> FALSE
                                          [] OTHER -> p.globalStats)
            /\ (pc[t] = "done" /\ c.op \in {"Record", "RecordAndPrint"}
                  /\ p.stats[c.inst] /\ p.globalStats)
                   => /\ records[c.inst][c.tag]
                            = Append(Lookup(p.records[c.inst], c.tag), SampleOf(t))
                      /\ c.op = "RecordAndPrint"
                            => out = Append(p.out, Line(c.inst, "RECORD", c.tag, <<c.d, 1>>))

\* C6 witness: with the stats gate of instance a off, a Record on instance
\* b, whose own gate and the process-wide gate are on, has stored its sample
C6_Witness ==
    /\ pc[Main] = "done"
    /\ call[Main].op = "Record"
    /\ call[Main].inst = "b"
    /\ ~stats["a"] /\ stats["b"] /\ globalStats
    /\ pre[Main].records["b"] = EmptyMap
    /\ records["b"]["t1"] = <<SampleOf(Main)>>

\* C10: every timing primitive of src/ledge.go has run its work exactly
\* once when it is past the work and when it returns, in every combination
\* of the gates, and never more than once.
C10_WorkRunsOnce ==
    \A t \in Threads :
        call[t].op \in CodeTimingOps
            => /\ ran[t] <= 1
               /\ (pc[t] = "work") = (ran[t] = 0)

\* C10 witness: a Record called with the instance stats gate off has
\* returned: its work ran once and nothing is stored
C10_Witness ==
    /\ pc[Main] = "done"
    /\ call[Main].op = "Record"
    /\ ~pre[Main].stats[call[Main].inst]
    /\ ran[Main] = 1
    /\ records = pre[Main].records

\* the labels of the lines printed behind the stats gates
StatsLabels ==
    {"TIME", "TIME-ABOVE", "RECORD", "RECORD-ABOVE-MAX", "COUNT", "MEAN",
     "MEDIAN", "PERC", "MIN", "MAX", "VARIANCE"}

LinesOf(i, labels) == {k \in DOMAIN out : out[k].inst = i /\ out[k].kind \in labels}

\* C5: the process-wide gates start enabled and the gates of a new instance
\* start off: as long as StatsOn of the instance has not been called, its
\* stats gate is off, none of its tags holds a sample and none of its
\* stats-gated functions has printed; as long as DebugOn of the instance
\* has not been called, its debug gate is off and its Debug has printed
\* nothing, in every state of the process-wide gates.
C5_FreshInstanceInert ==
    /\ (\A t \in Threads : ncalls[t] = 0) => (globalDebug /\ globalStats)
    /\ \A i \in Instances :
        /\ <<i, "stats">> \notin turnedOn
              => /\ ~stats[i]
                 /\ \A g \in DOMAIN records[i] : records[i][g] = <<>>
                 /\ LinesOf(i, StatsLabels) = {}
        /\ <<i, "debug">> \notin turnedOn
              => /\ ~debug[i]
                 /\ LinesOf(i, {"DEBUG"}) = {}

\* C5 witness: Record was called on an instance whose StatsOn was never
\* called, with the process-wide stats gate on, and has returned: nothing is
\* stored
C5_Witness ==
    /\ pc[Main] = "done"
    /\ call[Main].op = "Record"
    /\ <<call[Main].inst, "stats">> \notin turnedOn
    /\ pre[Main].globalStats
    /\ ran[Main] = 1
    /\ records[call[Main].inst] = EmptyMap

(***************************************************************************)
(* Sequential histories of toggles, Record and ClearRecords on one         *)
(* instance.                                                               *)
(***************************************************************************)
StatsToggleCalls ==
    {Call(op, "a", "t1", 0, 0, 0) : op \in {"GlobalStatsOn", "GlobalStatsOff", "StatsOn", "StatsOff"}}

HistoryCalls ==
    StatsToggleCalls
    \cup {Call("Record", "a", g, 0, 0, d) : g \in Tags, d \in GateDurations}
    \cup {Call("ClearRecords", "a", g, 0, 0, 0) : g \in Tags}

\* calls made in one history of toggles, Record and ClearRecords
MaxHistory == 5

NextHistory ==
    \/ Invoke(Main, HistoryCalls, MaxHistory)
    \/ Return(Main)
    \/ Toggle(Main)
    \/ Work(Main)
    \/ GateInst(Main)
    \/ GateGlobal(Main)
    \/ Lock(Main)
    \/ Unlock(Main)
    \/ AppendStep(Main)
    \/ StoreStep(Main)
    \/ Clear(Main)

SpecHistory == Init /\ [][NextHistory]_vars

\* C3: between calls, the number of samples stored for a tag is the number
\* of Record calls on the tag made with both stats gates on since the last
\* ClearRecords of the tag; the Record calls made with a gate off are not
\* among them, whatever was toggled afterwards.
C3_CountIsEnabledRecords ==
    pc[Main] \in {"idle", "done"}
        => \A g \in Tags : Len(Lookup(records["a"], g)) = enabledCalls["a"][g]

\* C3 witness: two Record calls were made on t1 with a gate off, then the
\* gate was set and two more were made: two samples are stored
C3_Witness ==
    /\ pc[Main] = "idle"
    /\ disabledCalls["a"]["t1"] = 2
    /\ enabledCalls["a"]["t1"] = 2
    /\ Len(records["a"]["t1"]) = 2

(***************************************************************************)
(* Sequential histories over the store of one instance: Record,            *)
(* RecordThenPrintIfMax, ClearRecords and Count, with every duration.      *)
(***************************************************************************)
StoreCalls ==
    StatsToggleCalls
    \cup {Call(op, "a", g, 0, 0, d) :
             op \in {"Record", "RecordThenPrintIfMax"}, g \in Tags, d \in Durations}
    \cup {Call(op, "a", g, 0, 0, 0) : op \in {"ClearRecords", "Count"}, g \in Tags}

NextStore ==
    \/ Invoke(Main, StoreCalls, MaxCalls)
    \/ Return(Main)
    \/ Toggle(Main)
    \/ Work(Main)
    \/ GateInst(Main)
    \/ GateGlobal(Main)
    \/ Lock(Main)
    \/ Unlock(Main)
    \/ AppendStep(Main)
    \/ StoreStep(Main)
    \/ MaxStep(Main)
    \/ MaxStoreStep(Main)
    \/ EmitLocked(Main)
    \/ Clear(Main)
    \/ RLock(Main)
    \/ Read(Main)
    \/ RUnlock(Main)
    \/ Compute(Main)

SpecStore == Init /\ [][NextStore]_vars

\* the sequence of the call's tag when the call was made (empty if absent)
PreSeq(t) == Lookup(pre[t].records[call[t].inst], call[t].tag)

\* the call has returned and the tags it does not name are as they were
Returned(t, op) == pc[t] = "done" /\ call[t].op = op

OtherTagsKept(t) ==
    /\ \A i \in Instances \ {call[t].inst} : records[i] = pre[t].records[i]
    /\ \A g \in Tags \ {call[t].tag} :
          /\ Has(records[call[t].inst], g) = Has(pre[t].records[call[t].inst], g)
          /\ Lookup(records[call[t].inst], g) = Lookup(pre[t].records[call[t].inst], g)

\* C4: when ClearRecords(tag) returns the tag is a key of the records with
\* the empty sequence; a Count of a tag that is present and empty, made with
\* the gates on, prints the count 0; a Record on such a tag, made with the
\* gates on, leaves the tag with exactly its one sample.
C4_ClearKeepsKeyEmpty ==
    \A t \in Threads :
        /\ Returned(t, "ClearRecords")
              => /\ Has(records[call[t].inst], call[t].tag)
                 /\ records[call[t].inst][call[t].tag] = <<>>
                 /\ OtherTagsKept(t)
                 /\ out = pre[t].out
        /\ (Returned(t, "Count") /\ BothOnAtCall(t)
              /\ Has(pre[t].records[call[t].inst], call[t].tag) /\ PreSeq(t) = <<>>)
              => /\ out = Append(pre[t].out,
                                 Line(call[t].inst, "COUNT", call[t].tag, <<0, 1>>))
                 /\ records = pre[t].records
        /\ (Returned(t, "Record") /\ BothOnAtCall(t)
              /\ Has(pre[t].records[call[t].inst], call[t].tag) /\ PreSeq(t) = <<>>)
              => /\ records[call[t].inst][call[t].tag] = <<SampleOf(t)>>
                 /\ OtherTagsKept(t)

\* C4 witness: a Record made with the gates on, on a tag that was present
\* and empty (as ClearRecords leaves it), has returned: the tag holds one
\* sample
C4_Witness ==
    /\ Returned(Main, "Record")
    /\ BothOnAtCall(Main)
    /\ Has(pre[Main].records["a"], call[Main].tag)
    /\ PreSeq(Main) = <<>>
    /\ Len(records["a"][call[Main].tag]) = 1

\* the samples of a sequence
Samples(q) == {q[k] : k \in DOMAIN q}

\* C7: a RecordThenPrintIfMax made with the stats gates on has, when it
\* returns, appended its sample to the sequence the tag had before, and has
\* printed one line if the sample is strictly greater than every sample of
\* that sequence (so also when the tag was absent or empty), and no line
\* otherwise (a sample equal to the earlier maximum prints nothing).
C7_PrintIffNewMax ==
    \A t \in Threads :
        (Returned(t, "RecordThenPrintIfMax") /\ BothOnAtCall(t))
            => /\ records[call[t].inst][call[t].tag] = Append(PreSeq(t), SampleOf(t))
               /\ OtherTagsKept(t)
               /\ IF \A x \in Samples(PreSeq(t)) : SampleOf(t) > x
                  THEN out = Append(pre[t].out,
                                    Line(call[t].inst, "RECORD-ABOVE-MAX", call[t].tag,
                                         <<call[t].d, 1>>))
                  ELSE out = pre[t].out

\* C7 witness: the sample equals the maximum stored before: it is appended
\* and nothing is printed
C7_Witness ==
    /\ Returned(Main, "RecordThenPrintIfMax")
    /\ BothOnAtCall(Main)
    /\ PreSeq(Main) # <<>>
    /\ SampleOf(Main) = SeqMax(PreSeq(Main))
    /\ SampleOf(Main) > 0
    /\ records["a"][call[Main].tag] = Append(PreSeq(Main), SampleOf(Main))
    /\ out = pre[Main].out

(***************************************************************************)
(* Sequential histories over the thresholds: TimeAbove and RecordAbove     *)
(* with every duration and every threshold.                                *)
(***************************************************************************)
AboveCalls ==
    StatsToggleCalls
    \cup {Call(op, "a", "t1", above, 0, d) :
             op \in {"TimeAbove", "RecordAbove"}, above \in Durations, d \in Durations}
    \cup {Call("ClearRecords", "a", "t1", 0, 0, 0)}

NextAbove ==
    \/ Invoke(Main, AboveCalls, MaxCalls)
    \/ Return(Main)
    \/ Toggle(Main)
    \/ Work(Main)
    \/ GateInst(Main)
    \/ GateGlobal(Main)
    \/ Above(Main)
    \/ AboveRecord(Main)
    \/ Emit(Main)
    \/ Lock(Main)
    \/ Unlock(Main)
    \/ AppendStep(Main)
    \/ StoreStep(Main)
    \/ Clear(Main)

SpecAbove == Init /\ [][NextAbove]_vars

\* C8: a TimeAbove made with the stats gates on has, when it returns,
\* printed one line if the elapsed time is strictly greater than the
\* threshold and nothing otherwise; no step of a TimeAbove changes the
\* records, in any state of the gates.
C8_TimeAboveStrict ==
    \A t \in Threads :
        /\ call[t].op = "TimeAbove" => records = pre[t].records
        /\ (Returned(t, "TimeAbove") /\ BothOnAtCall(t))
              => IF call[t].d > call[t].above
                 THEN out = Append(pre[t].out,
                                   Line(call[t].inst, "TIME-ABOVE", call[t].tag,
                                        <<call[t].d, 1>>))
                 ELSE out = pre[t].out

\* C8 witness: the elapsed time equals a threshold above zero and nothing
\* is printed
C8_Witness ==
    /\ Returned(Main, "TimeAbove")
    /\ BothOnAtCall(Main)
    /\ call[Main].d = call[Main].above
    /\ call[Main].above > 0
    /\ out = pre[Main].out

\* C9: a RecordAbove made with the stats gates on has, when it returns,
\* appended its sample if the elapsed time is strictly greater than the
\* threshold and left the records as they were otherwise; it prints nothing.
C9_RecordAboveStrict ==
    \A t \in Threads :
        (Returned(t, "RecordAbove") /\ BothOnAtCall(t))
            => /\ IF call[t].d > call[t].above
                  THEN /\ records[call[t].inst][call[t].tag]
                             = Append(PreSeq(t), SampleOf(t))
                       /\ OtherTagsKept(t)
                  ELSE records = pre[t].records
               /\ out = pre[t].out

\* C9 witness: after a ClearRecords of the tag, a RecordAbove whose elapsed
\* time equals its threshold has returned and the tag is still empty
C9_Witness ==
    /\ Returned(Main, "RecordAbove")
    /\ BothOnAtCall(Main)
    /\ call[Main].d = call[Main].above
    /\ call[Main].above > 0
    /\ Has(records["a"], "t1")
    /\ records["a"]["t1"] = <<>>

(***************************************************************************)
(* Concurrent callers of Record on one tag of one instance, with both      *)
(* stats gates on: the state after l.StatsOn().  The work of caller t      *)
(* takes t units, so that the samples tell the callers apart.              *)
(***************************************************************************)
InitConc ==
    /\ globalDebug = GlobalDefault
    /\ globalStats = GlobalDefault
    /\ debug = [i \in Instances |-> NewGate]
    /\ stats = [i \in Instances |-> IF i = "a" THEN TRUE ELSE NewGate]
    /\ records = [i \in Instances |-> EmptyMap]
    /\ recordsLock = [i \in Instances |-> NewLock]
    /\ out = <<>>
    /\ pc = [t \in Threads |-> "idle"]
    /\ call = [t \in Threads |-> NoCall]
    /\ elapsed = [t \in Threads |-> 0]
    /\ snap = [t \in Threads |-> NoSnap]
    /\ todo = [t \in Threads |-> <<>>]
    /\ ran = [t \in Threads |-> 0]
    /\ stack = [t \in Threads |-> <<>>]
    /\ pre = [t \in Threads |-> NoPre]
    /\ ncalls = [t \in Threads |-> 0]
    /\ enabledCalls = [i \in Instances |-> [g \in Tags |-> 0]]
    /\ disabledCalls = [i \in Instances |-> [g \in Tags |-> 0]]
    /\ turnedOn = {<<"a", "stats">>}
    /\ everBoth = {"a"}

NextConc ==
    \E t \in Threads :
        \/ InvokeConcurrent(t, {Call("Record", "a", "t1", 0, 0, t)}, CallsPerThread)
        \/ Return(t)
        \/ Work(t)
        \/ GateInst(t)
        \/ GateGlobal(t)
        \/ Lock(t)
        \/ AppendStep(t)
        \/ StoreStep(t)
        \/ Unlock(t)

SpecConc == InitConc /\ [][NextConc]_vars

\* how often v occurs in q
Occurrences(q, v) == Cardinality({k \in DOMAIN q : q[k] = v})

\* the appends caller t has made: one per call, the call in progress
\* counting once its store is done
Stored(t) ==
    IF pc[t] \in {"idle", "unlock", "done"} THEN ncalls[t] ELSE ncalls[t] - 1

RECURSIVE SumStored(_)
SumStored(T) ==
    IF T = {} THEN 0
    ELSE LET t == CHOOSE x \in T : TRUE IN Stored(t) + SumStored(T \ {t})

AllReturned == \A t \in Threads : pc[t] = "idle" /\ ncalls[t] = CallsPerThread

\* C2: under every interleaving of the callers, the tag's sequence holds
\* the sample of each caller exactly as often as the caller has appended
\* and nothing else; when every caller has made and finished its calls,
\* the sequence has NThreads * CallsPerThread samples.
C2_NoLostAppend ==
    LET q == Lookup(records["a"], "t1")
    IN  /\ \A t \in Threads : Occurrences(q, toMillis(t)) = Stored(t)
        /\ Len(q) = SumStored(Threads)
        /\ AllReturned => Len(q) = NThreads * CallsPerThread

\* C2 witness: every caller has finished its calls, and the samples of two
\* callers alternate in the sequence
C2_Witness ==
    /\ AllReturned
    /\ Len(records["a"]["t1"]) = NThreads * CallsPerThread
    /\ records["a"]["t1"][1] = toMillis(1)
    /\ records["a"]["t1"][2] = toMillis(2)
    /\ records["a"]["t1"][3] = toMillis(1)


(***************************************************************************)
(* Sequential histories of the accessors: one caller and one instance, the *)
(* stats toggles, Record and ClearRecords, Stats and the seven accessors   *)
(* on a tag that is absent, present but empty, or holds samples.           *)
(***************************************************************************)
\* the percentile the example asks of Perc
AccessorPercs == {75}

AccessorCalls ==
    StatsToggleCalls
    \cup {Call("Record", "a", "t1", 0, 0, d) : d \in GateDurations}
    \cup {Call("ClearRecords", "a", "t1", 0, 0, 0)}
    \cup {Call(op, "a", "t1", 0, p, 0) : op \in AccessorOps \cup {"Stats"},
                                         p \in AccessorPercs}

NextAccessors ==
    \/ Invoke(Main, AccessorCalls, MaxCalls)
    \/ Return(Main)
    \/ Toggle(Main)
    \/ Work(Main)
    \/ GateInst(Main)
    \/ GateGlobal(Main)
    \/ Lock(Main)
    \/ Unlock(Main)
    \/ AppendStep(Main)
    \/ StoreStep(Main)
    \/ Clear(Main)
    \/ RLock(Main)
    \/ Read(Main)
    \/ RUnlock(Main)
    \/ Compute(Main)

SpecAccessors == Init /\ [][NextAccessors]_vars

\* the line Count prints of a tag with no sample
CountZero(t) == Line(call[t].inst, "COUNT", call[t].tag, <<0, 1>>)

\* C11: with the stats gates on and a tag that is absent or present but
\* empty, an accessor or Stats never reaches the panic of a statistic asked
\* of an empty sequence and changes no records; Mean, Median, Perc, Min,
\* Max and Variance print nothing; Count has printed, when it returns, the
\* one line of count 0; Stats has printed, when it returns, exactly that
\* one line, and at no step anything else.
C11_EmptyTagReportsOnlyCount ==
    \A t \in Threads :
        (/\ call[t].op \in AccessorOps \cup {"Stats"}
         /\ BothOnAtCall(t)
         /\ PreSeq(t) = <<>>)
            => /\ pc[t] # "panicked"
               /\ records = pre[t].records
               /\ out \in {pre[t].out, Append(pre[t].out, CountZero(t))}
               /\ (call[t].op \notin {"Count", "Stats"}) => out = pre[t].out
               /\ (pc[t] = "done" /\ call[t].op \in {"Count", "Stats"})
                      => out = Append(pre[t].out, CountZero(t))

\* C11 witness: Stats has returned from a tag that ClearRecords left present
\* and empty, with the stats gates on, having printed the line of count 0
C11_Witness ==
    /\ Returned(Main, "Stats")
    /\ BothOnAtCall(Main)
    /\ Has(pre[Main].records["a"], "t1")
    /\ PreSeq(Main) = <<>>
    /\ out = Append(pre[Main].out, CountZero(Main))


(***************************************************************************)
(* Sequential histories of Panic, Check and CheckPrint: one caller, one    *)
(* instance, every toggle of the package and of the instance, and Record   *)
(* to give the instance records.                                           *)
(***************************************************************************)
PanicCalls ==
    {Call(op, "a", "t1", 0, 0, 0) : op \in ToggleOps}
    \cup {Call("Record", "a", "t1", 0, 0, d) : d \in GateDurations}
    \cup {ErrCall("Panic", "a", "msg", FALSE)}
    \cup {ErrCall(op, "a", "msg", err) : op \in CheckOps, err \in BOOLEAN}

NextPanic ==
    \/ Invoke(Main, PanicCalls, MaxCalls)
    \/ Return(Main)
    \/ Toggle(Main)
    \/ Work(Main)
    \/ GateInst(Main)
    \/ GateGlobal(Main)
    \/ Lock(Main)
    \/ Unlock(Main)
    \/ AppendStep(Main)
    \/ StoreStep(Main)
    \/ CheckErr(Main)
    \/ Panic(Main)

SpecPanic == Init /\ [][NextPanic]_vars

\* the line Panic prints
PanicLine(t) == Line(call[t].inst, "PANIC", call[t].tag, <<0, 1>>)

\* the call is one that panics: Panic, or a Check or CheckPrint of an error
Panics(c) == c.op = "Panic" \/ (c.op \in CheckOps /\ c.err)

\* C12: in every state of the gates, a call of Panic, Check or CheckPrint
\* leaves the records and the gates as they were; Check and CheckPrint of a
\* nil error return having printed nothing; Panic, and Check and CheckPrint
\* of an error, never return: they print one line and panic, and from then
\* on the caller takes no step, makes no further call, and nothing more is
\* printed.
C12_CheckAbortsOnError ==
    /\ [](\A t \in Threads :
            call[t].op \in CheckOps \cup {"Panic"}
                => /\ records = pre[t].records
                   /\ stats = pre[t].stats /\ debug = pre[t].debug
                   /\ globalStats = pre[t].globalStats
                   /\ globalDebug = pre[t].globalDebug
                   /\ pc[t] = "done" => (~Panics(call[t]) /\ out = pre[t].out)
                   /\ pc[t] = "panicked"
                         => (Panics(call[t]) /\ out = Append(pre[t].out, PanicLine(t)))
                   /\ pc[t] \in {"check", "panic"} => out = pre[t].out)
    /\ [][\A t \in Threads :
            pc[t] = "panicked"
                => (pc'[t] = "panicked" /\ ncalls'[t] = ncalls[t] /\ out' = out)]_vars

\* C12 witness: a Check of an error has panicked after printing its line,
\* on an instance that holds a sample, with the process-wide stats gate off
C12_Witness ==
    /\ pc[Main] = "panicked"
    /\ call[Main].op = "Check"
    /\ call[Main].err
    /\ ~globalStats
    /\ Lookup(records["a"], "t1") # <<>>
    /\ out = Append(pre[Main].out, PanicLine(Main))


(***************************************************************************)
(* Concurrent callers of the functions that write the records: Record,     *)
(* RecordAndPrint, RecordThenPrintIfMax and ClearRecords on the tags of    *)
(* one instance, with both stats gates on.  The callers share a budget of  *)
(* calls.                                                                  *)
(***************************************************************************)
\* calls made by all the callers of one concurrent run
MaxShared == 3

RECURSIVE SumCalls(_)
SumCalls(T) ==
    IF T = {} THEN 0
    ELSE LET t == CHOOSE x \in T : TRUE IN ncalls[t] + SumCalls(T \ {t})

\* a call of one of several concurrent callers that have, together, made
\* fewer than total calls
InvokeShared(t, calls, total) ==
    /\ SumCalls(Threads) < total
    /\ InvokeConcurrent(t, calls, total)

WriterCalls(t) ==
    {Call(op, "a", "t1", 0, 0, t) : op \in {"RecordAndPrint", "RecordThenPrintIfMax"}}
    \cup {Call("Record", "a", "t2", 0, 0, t)}
    \cup {Call("ClearRecords", "a", "t1", 0, 0, 0)}

NextWriters ==
    \E t \in Threads :
        \/ InvokeShared(t, WriterCalls(t), MaxShared)
        \/ Return(t)
        \/ Work(t)
        \/ GateInst(t)
        \/ GateGlobal(t)
        \/ Lock(t)
        \/ AppendStep(t)
        \/ StoreStep(t)
        \/ EmitLocked(t)
        \/ MaxStep(t)
        \/ MaxStoreStep(t)
        \/ Clear(t)
        \/ Unlock(t)

SpecWriters == InitConc /\ [][NextWriters]_vars

\* p is a prefix of q
IsPrefix(p, q) == Len(p) <= Len(q) /\ SubSeq(q, 1, Len(p)) = p

\* the step is the clearing step of a ClearRecords of tag g of instance i
ClearsTag(i, g) ==
    \E t \in Threads :
        /\ pc[t] = "clear" /\ pc'[t] = "unlock"
        /\ call[t].op = "ClearRecords" /\ call[t].inst = i /\ call[t].tag = g

\* C13: at every step of every caller, a tag that is a key of the records
\* stays one, and the sequence of every tag is a prefix of its sequence
\* after the step, unless the step is the clearing step of a ClearRecords
\* of that tag, which leaves the tag with the empty sequence.
C13_AppendOnlyUntilCleared ==
    [][\A i \in Instances : \A g \in Tags :
          /\ Has(records[i], g) => Has(records'[i], g)
          /\ IF ClearsTag(i, g)
             THEN Has(records'[i], g) /\ records'[i][g] = <<>>
             ELSE IsPrefix(Lookup(records[i], g), Lookup(records'[i], g))]_vars

\* C13 witness: a ClearRecords has cleared a tag that held the sample of a
\* RecordAndPrint (whose line is printed) while the other tag holds a sample
C13_Witness ==
    \E t \in Threads :
        /\ pc[t] = "unlock"
        /\ call[t].op = "ClearRecords"
        /\ records["a"][call[t].tag] = <<>>
        /\ \E k \in DOMAIN out : out[k].kind = "RECORD" /\ out[k].tag = call[t].tag
        /\ \A u \in Threads : pc[u] \notin {"emitLocked", "append", "store"}
        /\ \E g \in Tags \ {call[t].tag} : Lookup(records["a"], g) # <<>>


(***************************************************************************)
(* Concurrent callers of Record on one tag, each call remembering how many *)
(* calls were made before it: the order in which the calls were made.      *)
(***************************************************************************)
\* a call of one of several concurrent callers that remembers its rank
\* among the calls made
InvokeRanked(t, calls, total) ==
    /\ SumCalls(Threads) < total
    /\ Begin(t, calls, total, [rank |-> SumCalls(Threads)])

NextOrder ==
    \E t \in Threads :
        \/ InvokeRanked(t, {Call("Record", "a", "t1", 0, 0, t)}, MaxShared)
        \/ Return(t)
        \/ Work(t)
        \/ GateInst(t)
        \/ GateGlobal(t)
        \/ Lock(t)
        \/ AppendStep(t)
        \/ StoreStep(t)
        \/ Unlock(t)

SpecOrder == InitConc /\ [][NextOrder]_vars

\* the step is the store of caller t
Stores(t) == pc[t] = "store" /\ pc'[t] = "unlock"

\* C14: under concurrent Record calls on one tag the sequence grows only by
\* the store a caller makes while it holds the exclusive lock, after its
\* work is done, and each store puts the caller's sample after every sample
\* stored before: the order of the samples is the order of the stores,
\* whatever the order in which the calls were made.
C14_OrderIsStoreOrder ==
    [][/\ \A t \in Threads :
             Stores(t)
                 => /\ recordsLock[call[t].inst].writer = t
                    /\ ran[t] = 1
                    /\ records'[call[t].inst][call[t].tag]
                          = Append(Lookup(records[call[t].inst], call[t].tag),
                                   toMillis(elapsed[t]))
       /\ records' # records => \E t \in Threads : Stores(t)]_vars

\* C14 witness: two calls are over, and the sample of the one made later
\* is stored before the sample of the one made earlier
C14_Witness ==
    \E t, u \in Threads :
        /\ pc[t] = "done" /\ pc[u] = "done"
        /\ pre[t].rank < pre[u].rank
        /\ Lookup(records["a"], "t1") = <<SampleOf(u), SampleOf(t)>>


(***************************************************************************)
(* Concurrent callers of the stats toggles, Record and RecordAndPrint on   *)
(* one tag of one instance, from the state after ledge.StatsOff() and      *)
(* l.StatsOn(): the process-wide stats gate off, the gate of the instance  *)
(* on, the two never yet on together.  Record stores the sample 0,         *)
(* RecordAndPrint of caller t the sample of t units.                       *)
(***************************************************************************)
InitRace ==
    /\ globalDebug = GlobalDefault
    /\ globalStats = FALSE
    /\ debug = [i \in Instances |-> NewGate]
    /\ stats = [i \in Instances |-> IF i = "a" THEN TRUE ELSE NewGate]
    /\ records = [i \in Instances |-> EmptyMap]
    /\ recordsLock = [i \in Instances |-> NewLock]
    /\ out = <<>>
    /\ pc = [t \in Threads |-> "idle"]
    /\ call = [t \in Threads |-> NoCall]
    /\ elapsed = [t \in Threads |-> 0]
    /\ snap = [t \in Threads |-> NoSnap]
    /\ todo = [t \in Threads |-> <<>>]
    /\ ran = [t \in Threads |-> 0]
    /\ stack = [t \in Threads |-> <<>>]
    /\ pre = [t \in Threads |-> NoPre]
    /\ ncalls = [t \in Threads |-> 0]
    /\ enabledCalls = [i \in Instances |-> [g \in Tags |-> 0]]
    /\ disabledCalls = [i \in Instances |-> [g \in Tags |-> 0]]
    /\ turnedOn = {<<"a", "stats">>}
    /\ everBoth = {}

RaceCalls(t) ==
    StatsToggleCalls
    \cup {Call("Record", "a", "t1", 0, 0, 0)}
    \cup {Call("RecordAndPrint", "a", "t1", 0, 0, t)}

NextRace ==
    \E t \in Threads :
        \/ InvokeShared(t, RaceCalls(t), MaxShared)
        \/ Return(t)
        \/ Toggle(t)
        \/ Work(t)
        \/ GateInst(t)
        \/ GateGlobal(t)
        \/ Lock(t)
        \/ EmitLocked(t)
        \/ AppendStep(t)
        \/ StoreStep(t)
        \/ Unlock(t)

SpecRace == InitRace /\ [][NextRace]_vars

\* instance i holds a sample
HoldsSample(i) == \E g \in DOMAIN records[i] : records[i][g] # <<>>

\* C15, as claimed: an instance holds a sample only in an execution in
\* which its stats gate and the process-wide stats gate have been on
\* together at some moment.
C15_StoresOnlyIfBothOnTogether ==
    \A i \in Instances : HoldsSample(i) => i \in everBoth

\* caller t leaves step p in this step
Leaves(t, p) == pc[t] = p /\ pc'[t] # p

\* C15, amended: Record and RecordAndPrint read the stats gate of the
\* instance and then the process-wide stats gate, each once and at moments
\* of their own: the call goes on from its first read iff the gate of the
\* instance is on at that moment, and from its second read to the lock iff
\* the process-wide gate is on at that moment; the lock is reached only
\* from the second read, and the records change only by the store of a
\* caller that holds the lock.  So an instance whose StatsOn was never
\* called holds no sample.
C15_StoresIffEachGateOnWhenRead ==
    /\ [](\A i \in Instances : HoldsSample(i) => <<i, "stats">> \in turnedOn)
    /\ [][/\ \A t \in Threads :
                call[t].op \in {"Record", "RecordAndPrint"}
                    => /\ Leaves(t, "gateInst")
                          => (pc'[t] = "gateGlobal" <=> stats[call[t].inst])
                       /\ Leaves(t, "gateInst") /\ ~stats[call[t].inst]
                          => pc'[t] = "done"
                       /\ Leaves(t, "gateGlobal")
                          => (pc'[t] = "lock" <=> globalStats)
                       /\ Leaves(t, "gateGlobal") /\ ~globalStats
                          => pc'[t] = "done"
                       /\ pc'[t] = "lock" => pc[t] \in {"gateGlobal", "lock"}
          /\ records' # records
                => \E t \in Threads :
                      Stores(t) /\ recordsLock[call[t].inst].writer = t]_vars

\* C15 witness: a Record has stored its sample although the stats gate of
\* the instance and the process-wide stats gate were never on together: the
\* gate of the instance was turned off, and the process-wide gate on,
\* between its two reads
C15_Witness ==
    \E t \in Threads :
        /\ pc[t] = "done"
        /\ call[t].op = "Record"
        /\ Lookup(records["a"], "t1") = <<SampleOf(t)>>
        /\ "a" \notin everBoth
        /\ ~stats["a"] /\ globalStats

\* the lines RecordAndPrint has printed for caller t
PrintedBy(t) ==
    Cardinality({k \in DOMAIN out : out[k].kind = "RECORD" /\ out[k].val = <<t, 1>>})

\* the samples RecordAndPrint has stored for caller t
StoredBy(t) == Occurrences(Lookup(records["a"], "t1"), toMillis(t))

\* C18: under every interleaving with the toggles, each RecordAndPrint has
\* printed its line and stored its sample, or has done neither: a caller
\* has printed as many lines as it has stored samples, except between the
\* print and the store of a call, where the store is still to come.
C18_RecordAndPrintBothOrNeither ==
    \A t \in Threads :
        IF call[t].op = "RecordAndPrint" /\ pc[t] \in {"append", "store"}
        THEN PrintedBy(t) = StoredBy(t) + 1
        ELSE PrintedBy(t) = StoredBy(t)

\* C18 witness: a RecordAndPrint has returned having printed and stored,
\* with the stats gate of the instance turned off while it ran
C18_Witness ==
    \E t \in Threads :
        /\ pc[t] = "done"
        /\ call[t].op = "RecordAndPrint"
        /\ ~stats["a"]
        /\ PrintedBy(t) = 1
        /\ StoredBy(t) = 1


\* C16: among concurrent callers of Record, RecordAndPrint,
\* RecordThenPrintIfMax and ClearRecords, no step that prints a line is
\* taken while the exclusive lock of an instance is held.
C16_NoLineUnderExclusiveLock ==
    [][out' # out => \A i \in Instances : recordsLock[i].writer = 0]_vars


(***************************************************************************)
(* Concurrent callers of Count and Median and of Record and ClearRecords   *)
(* on one tag of one instance, with both stats gates on.  The slice an     *)
(* accessor reads under the shared lock is a value of its own: an append   *)
(* writes past its length or into a new array, and ClearRecords stores a   *)
(* new slice.                                                              *)
(***************************************************************************)
SnapshotCalls(t) ==
    {Call(op, "a", "t1", 0, 0, 0) : op \in {"Count", "Median", "ClearRecords"}}
    \cup {Call("Record", "a", "t1", 0, 0, t)}

NextSnapshot ==
    \E t \in Threads :
        \/ InvokeShared(t, SnapshotCalls(t), MaxShared)
        \/ Return(t)
        \/ Work(t)
        \/ GateInst(t)
        \/ GateGlobal(t)
        \/ Lock(t)
        \/ AppendStep(t)
        \/ StoreStep(t)
        \/ Clear(t)
        \/ Unlock(t)
        \/ RLock(t)
        \/ Read(t)
        \/ RUnlock(t)
        \/ Compute(t)

SpecSnapshot == InitConc /\ [][NextSnapshot]_vars

\* what the accessor of caller t prints of the sequence it has read
Reported(t) ==
    LET acc == Head(todo[t])
        c == call[t]
    IN  IF acc = "Count"
        THEN Append(out, Line(c.inst, "COUNT", c.tag, <<Len(snap[t].recs), 1>>))
        ELSE IF ~snap[t].ok \/ snap[t].recs = <<>>
        THEN out
        ELSE Append(out, Line(c.inst, AccessorLabel(acc), c.tag,
                              StatValue(acc, snap[t].recs, PercOf(c))))

\* C17: an accessor that holds the shared lock after its read has read the
\* sequence of its tag as it is; from then on what it has read does not
\* change, whatever the other callers append or clear; it makes its last
\* step, the statistic and the line, after it released the shared lock, and
\* the line it prints is the statistic of what it has read.
C17_AccessorReportsItsSnapshot ==
    /\ [](\A t \in Threads :
            pc[t] = "runlock"
                => /\ t \in recordsLock[call[t].inst].readers
                   /\ snap[t] = ReadTag(records[call[t].inst], call[t].tag))
    /\ [][\A t \in Threads :
            /\ pc[t] \in {"runlock", "compute"} => snap'[t] = snap[t]
            /\ Leaves(t, "compute")
                  => /\ t \notin recordsLock[call[t].inst].readers
                     /\ out' = Reported(t)]_vars

\* C17 witness: Median has printed the median of the sample it read under
\* the shared lock, and the tag has been cleared since the read
C17_Witness ==
    \E t \in Threads :
        /\ pc[t] = "done"
        /\ call[t].op = "Median"
        /\ snap[t].recs # <<>>
        /\ out = <<Line("a", "MEDIAN", "t1", StatMedian(snap[t].recs))>>
        /\ Has(records["a"], "t1")
        /\ records["a"]["t1"] = <<>>


(***************************************************************************)
(* Sequential histories of the functions that only read or print: one      *)
(* caller and one instance, every toggle, Print, Debug, Time, TimeAbove,   *)
(* Stats and the accessors on a tag that Record and ClearRecords write and *)
(* on a tag that is never recorded.                                        *)
(***************************************************************************)
\* the functions that write no records
FrameOps ==
    {"Print", "Debug", "Time", "TimeAbove", "Stats"} \cup ToggleOps \cup AccessorOps

FrameCalls ==
    {Call(op, "a", "t1", 0, 0, 0) : op \in ToggleOps \cup {"Print", "Debug", "ClearRecords"}}
    \cup {Call(op, "a", "t1", above, 0, d) :
             op \in {"Time", "TimeAbove", "Record"},
             above \in GateThresholds, d \in GateDurations}
    \cup {Call(op, "a", g, 0, p, 0) :
             op \in AccessorOps \cup {"Stats"}, g \in Tags, p \in AccessorPercs}

NextFrame ==
    \/ Invoke(Main, FrameCalls, MaxCalls)
    \/ Return(Main)
    \/ Toggle(Main)
    \/ Work(Main)
    \/ GateInst(Main)
    \/ GateGlobal(Main)
    \/ Above(Main)
    \/ Emit(Main)
    \/ Lock(Main)
    \/ Unlock(Main)
    \/ AppendStep(Main)
    \/ StoreStep(Main)
    \/ Clear(Main)
    \/ RLock(Main)
    \/ Read(Main)
    \/ RUnlock(Main)
    \/ Compute(Main)

SpecFrame == Init /\ [][NextFrame]_vars

\* C19: in every state of the gates and at every step of the call, Print,
\* Debug, Time, TimeAbove, every toggle, every accessor and Stats leave the
\* records of every instance as they were when the call was made: the same
\* keys with the same sequences, also when the tag was never recorded.
C19_ReadersKeepRecords ==
    \A t \in Threads :
        call[t].op \in FrameOps
            => /\ records = pre[t].records
               /\ \A i \in Instances : DOMAIN records[i] = DOMAIN pre[t].records[i]

\* C19 witness: with the stats gates on and a sample under another tag,
\* Stats has returned from a tag never recorded, having printed its line,
\* and the tag is still no key of the records
C19_Witness ==
    /\ Returned(Main, "Stats")
    /\ BothOnAtCall(Main)
    /\ call[Main].tag = "t2"
    /\ out = Append(pre[Main].out, CountZero(Main))
    /\ ~Has(records["a"], "t2")
    /\ Lookup(records["a"], "t1") # <<>>


(***************************************************************************)
(* Work that calls the library: the work of a timing primitive may itself  *)
(* call Record, RecordThenPrintIfMax, ClearRecords or Count on the same    *)
(* instance before it ends.  The call in progress is kept on the caller's  *)
(* stack and resumed, still in its work, when the inner call returns.      *)
(***************************************************************************)
Frame(t) ==
    [pc |-> pc[t], call |-> call[t], elapsed |-> elapsed[t], snap |-> snap[t],
     todo |-> todo[t], ran |-> ran[t], pre |-> pre[t]]

\* f() of a timing primitive makes a call of its own
WorkCalls(t, calls, total) ==
    /\ pc[t] = "work"
    /\ SumCalls(Threads) < total
    /\ \E c \in calls :
        /\ call' = [call EXCEPT ![t] = c]
        /\ pc' = [pc EXCEPT ![t] = EntryPc(c.op)]
        /\ todo' = [todo EXCEPT ![t] = Accessors(c.op)]
    /\ stack' = [stack EXCEPT ![t] = Append(@, Frame(t))]
    /\ elapsed' = [elapsed EXCEPT ![t] = 0]
    /\ snap' = [snap EXCEPT ![t] = NoSnap]
    /\ ran' = [ran EXCEPT ![t] = 0]
    /\ pre' = [pre EXCEPT ![t] = NoPre]
    /\ ncalls' = [ncalls EXCEPT ![t] = @ + 1]
    /\ UNCHANGED <<shared, enabledCalls, disabledCalls, turnedOn, everBoth>>

\* the call made by the work returns: the work goes on
ReturnToWork(t) ==
    /\ pc[t] = "done"
    /\ stack[t] # <<>>
    /\ LET f == stack[t][Len(stack[t])]
       IN /\ pc' = [pc EXCEPT ![t] = f.pc]
          /\ call' = [call EXCEPT ![t] = f.call]
          /\ elapsed' = [elapsed EXCEPT ![t] = f.elapsed]
          /\ snap' = [snap EXCEPT ![t] = f.snap]
          /\ todo' = [todo EXCEPT ![t] = f.todo]
          /\ ran' = [ran EXCEPT ![t] = f.ran]
          /\ pre' = [pre EXCEPT ![t] = f.pre]
    /\ stack' = [stack EXCEPT ![t] = SubSeq(@, 1, Len(@) - 1)]
    /\ UNCHANGED <<shared, ncalls, enabledCalls, disabledCalls, turnedOn, everBoth>>

\* calls made by all the callers of one run, those made by the work of a
\* call included
MaxNested == 2

NestedCalls ==
    {Call(op, "a", "t1", 0, 0, d) :
         op \in {"Record", "RecordThenPrintIfMax"}, d \in GateDurations}
    \cup {Call(op, "a", "t1", 0, 0, 0) : op \in {"ClearRecords", "Count"}}

StepNested(t) ==
    \/ InvokeShared(t, NestedCalls, MaxNested)
    \/ WorkCalls(t, NestedCalls, MaxNested)
    \/ Return(t)
    \/ ReturnToWork(t)
    \/ Work(t)
    \/ GateInst(t)
    \/ GateGlobal(t)
    \/ Lock(t)
    \/ AppendStep(t)
    \/ StoreStep(t)
    \/ MaxStep(t)
    \/ MaxStoreStep(t)
    \/ EmitLocked(t)
    \/ Clear(t)
    \/ Unlock(t)
    \/ RLock(t)
    \/ Read(t)
    \/ RUnlock(t)
    \/ Compute(t)

NextNested == \E t \in Threads : StepNested(t)

\* every goroutine that can run does run: the work ends, a goroutine
\* waiting for a lock that stays free gets it
SpecNested ==
    InitConc /\ [][NextNested]_vars /\ \A t \in Threads : WF_vars(StepNested(t))

\* caller t holds a lock of some instance
HoldsLock(t) ==
    \E i \in Instances : recordsLock[i].writer = t \/ t \in recordsLock[i].readers

\* C20: a caller whose work runs holds no lock, and a caller whose call has
\* returned holds none; a call on the stack of a caller is a timing
\* primitive in its work; and, the work of every call ending, every call
\* of every caller returns, also when the work calls Record,
\* RecordThenPrintIfMax, ClearRecords or Count on the same instance.
C20_NoLockWhileWorkAndAllReturn ==
    /\ [](\A t \in Threads :
            /\ pc[t] \in {"idle", "work", "done"} => ~HoldsLock(t)
            /\ \A k \in DOMAIN stack[t] :
                  stack[t][k].pc = "work" /\ stack[t][k].call.op \in TimingOps)
    /\ \A t \in Threads :
          (pc[t] # "idle") ~> (pc[t] = "idle" /\ stack[t] = <<>>)

\* C20 witness: the work of a RecordThenPrintIfMax has called Record, which
\* has stored its sample and still holds the exclusive lock
C20_Witness ==
    \E t \in Threads :
        /\ stack[t] # <<>>
        /\ stack[t][1].call.op = "RecordThenPrintIfMax"
        /\ stack[t][1].pc = "work"
        /\ call[t].op = "Record"
        /\ pc[t] = "unlock"
        /\ recordsLock["a"].writer = t
        /\ Lookup(records["a"], "t1") # <<>>


(***************************************************************************)
(* ClearRecords in the sequential histories of the stats toggles, Record   *)
(* and ClearRecords on the two tags of one instance.                       *)
(***************************************************************************)
\* C21: ClearRecords reads no gate: in every combination of the stats gate
\* of the instance and the process-wide stats gate, also with both off, a
\* ClearRecords(tag) is never at a read of a gate, changes no gate and
\* prints nothing, leaves the records as they were until it holds the
\* lock, and has, when it returns, left the tag a key of the records with
\* the empty sequence (also when the tag was no key before), the other
\* tags as they were and the lock free.
C21_ClearRecordsUngated ==
    \A t \in Threads :
        call[t].op = "ClearRecords"
            => /\ pc[t] \notin {"work", "gateInst", "gateGlobal"}
               /\ stats = pre[t].stats
               /\ globalStats = pre[t].globalStats
               /\ out = pre[t].out
               /\ pc[t] = "lock" => records = pre[t].records
               /\ pc[t] = "done"
                     => /\ Has(records[call[t].inst], call[t].tag)
                        /\ records[call[t].inst][call[t].tag] = <<>>
                        /\ OtherTagsKept(t)
                        /\ ~HoldsLock(t)

\* C21 witness: a ClearRecords called with the stats gate of the instance
\* and the process-wide stats gate both off, on a tag that held a sample,
\* has returned and the tag is empty
C21_Witness ==
    /\ Returned(Main, "ClearRecords")
    /\ ~pre[Main].stats["a"]
    /\ ~pre[Main].globalStats
    /\ PreSeq(Main) # <<>>
    /\ records["a"][call[Main].tag] = <<>>

=============================================================================
